---- MODULE Spec2Model ----
(***************************************************************************)
(* Copy Bear: the background service worker (click-count disambiguation,   *)
(* performClickAction, openUrl, showBadgeText) and its pure helpers.       *)
(*                                                                         *)
(* Strings are sequences of one-character strings, so that replaceAll,     *)
(* trim, startsWith and encodeURIComponent are computed character by       *)
(* character as JavaScript computes them.                                  *)
(***************************************************************************)
EXTENDS Integers, Sequences, FiniteSets, TLC

(***************************************************************************)
(* String primitives of the JavaScript runtime used by the worker.         *)
(***************************************************************************)

\* String.prototype.startsWith(p)
StartsWith(s, p) ==
  /\ Len(p) <= Len(s)
  /\ SubSeq(s, 1, Len(p)) = p

\* String.prototype.indexOf(pat, from), 1-based; 0 when there is no match.
\* An empty pattern matches at every position from..Len(s)+1.
IndexOf(s, pat, from) ==
  LET cands == {j \in from..(Len(s) - Len(pat) + 1) :
                   SubSeq(s, j, j + Len(pat) - 1) = pat}
  IN IF cands = {} THEN 0
     ELSE CHOOSE j \in cands : \A k \in cands : j <= k

\* String.prototype.includes(pat)
Includes(s, pat) == IndexOf(s, pat, 1) # 0

\* The grave accent character (U+0060), written as a token
BackTick == "BACKTICK"

\* The apostrophe character (U+0027)
Apostrophe == "APOSTROPHE"

\* GetSubstitution of ECMA-262 for a string pattern (no captures): the
\* replacement text may hold $$, $&, $ + grave accent (the text before the
\* match) and $ + apostrophe (the text after it), which are expanded; any
\* other character, a lone $ and $1..$9 included, is copied.
RECURSIVE GetSubstitution(_, _, _, _)
GetSubstitution(matched, str, position, replacement) ==
  IF replacement = <<>> THEN <<>>
  ELSE IF Head(replacement) = "$" /\ Len(replacement) >= 2
       THEN LET c    == replacement[2]
                rest == SubSeq(replacement, 3, Len(replacement))
            IN CASE c = "$" -> <<"$">> \o GetSubstitution(matched, str, position, rest)
                 [] c = "&" -> matched \o GetSubstitution(matched, str, position, rest)
                 [] c = BackTick -> SubSeq(str, 1, position - 1)
                                 \o GetSubstitution(matched, str, position, rest)
                 [] c = Apostrophe -> SubSeq(str, position + Len(matched), Len(str))
                                 \o GetSubstitution(matched, str, position, rest)
                 [] OTHER   -> <<"$">>
                                 \o GetSubstitution(matched, str, position, Tail(replacement))
       ELSE <<Head(replacement)>>
              \o GetSubstitution(matched, str, position, Tail(replacement))

\* The tail of String.prototype.replaceAll(pat, rep): the text of str from
\* endOfLastMatch on, with every match at or after position `from` replaced.
\* Matches are found in the original string, left to right, not overlapping
\* (the search advances by max(1, Len(pat))).
RECURSIVE ReplaceFrom(_, _, _, _, _)
ReplaceFrom(str, pat, rep, from, endOfLastMatch) ==
  LET p == IF from > Len(str) + 1 THEN 0 ELSE IndexOf(str, pat, from)
  IN IF p = 0 THEN SubSeq(str, endOfLastMatch, Len(str))
     ELSE SubSeq(str, endOfLastMatch, p - 1)
            \o GetSubstitution(pat, str, p, rep)
            \o ReplaceFrom(str, pat, rep,
                           p + (IF Len(pat) = 0 THEN 1 ELSE Len(pat)),
                           p + Len(pat))

\* String.prototype.replaceAll(pat, rep) with a string pattern
ReplaceAll(str, pat, rep) == ReplaceFrom(str, pat, rep, 1, 1)

\* White space as String.prototype.trim() sees it (the characters used here)
WhiteSpace == {" ", "\n", "\t"}

\* String.prototype.trim()
RECURSIVE Trim(_)
Trim(s) ==
  IF s = <<>> THEN s
  ELSE IF Head(s) \in WhiteSpace THEN Trim(Tail(s))
  ELSE IF s[Len(s)] \in WhiteSpace THEN Trim(SubSeq(s, 1, Len(s) - 1))
  ELSE s

\* Array.prototype.join(sep) on an array of strings
RECURSIVE Join(_, _)
Join(texts, sep) ==
  IF texts = <<>> THEN <<>>
  ELSE IF Len(texts) = 1 THEN texts[1]
  ELSE texts[1] \o sep \o Join(Tail(texts), sep)

\* encodeURIComponent on one character: the %XX escape of a character that
\* is not unreserved; letters, digits and - _ . ! ~ * ( ) are left alone.
PercentEncode(c) ==
  CASE c = " "  -> <<"%", "2", "0">>
    [] c = "\n" -> <<"%", "0", "A">>
    [] c = "\t" -> <<"%", "0", "9">>
    [] c = "$"  -> <<"%", "2", "4">>
    [] c = "%"  -> <<"%", "2", "5">>
    [] c = "&"  -> <<"%", "2", "6">>
    [] c = "/"  -> <<"%", "2", "F">>
    [] c = ":"  -> <<"%", "3", "A">>
    [] c = "<"  -> <<"%", "3", "C">>
    [] c = "="  -> <<"%", "3", "D">>
    [] c = ">"  -> <<"%", "3", "E">>
    [] c = "?"  -> <<"%", "3", "F">>
    [] c = "["  -> <<"%", "5", "B">>
    [] c = "\\" -> <<"%", "5", "C">>
    [] c = "]"  -> <<"%", "5", "D">>
    [] c = BackTick -> <<"%", "6", "0">>
    [] c = "#"  -> <<"%", "2", "3">>
    [] OTHER    -> <<c>>

\* encodeURIComponent(s)
RECURSIVE encodeURIComponent(_)
encodeURIComponent(s) ==
  IF s = <<>> THEN <<>>
  ELSE PercentEncode(Head(s)) \o encodeURIComponent(Tail(s))

(***************************************************************************)
(* removeUTMParams: new URL(urlString), URLSearchParams.has/delete and     *)
(* URL.toString(), for URLs without percent escapes or credentials.        *)
(***************************************************************************)

\* Position of the first occurrence of character c in s, 0 when absent
FirstOf(s, c) == IndexOf(s, <<c>>, 1)

\* s split at every occurrence of character c (String.prototype.split)
RECURSIVE SplitOn(_, _)
SplitOn(s, c) ==
  LET p == FirstOf(s, c)
  IN IF p = 0 THEN <<s>>
     ELSE <<SubSeq(s, 1, p - 1)>> \o SplitOn(SubSeq(s, p + 1, Len(s)), c)

\* Characters a URL scheme may hold (those used here)
SchemeChars == {"a", "c", "f", "h", "i", "l", "m", "o", "p", "s", "t"}

\* Schemes the URL parser treats as special (those used here)
SpecialSchemes == {<<"h", "t", "t", "p">>, <<"h", "t", "t", "p", "s">>}

\* s without its leading "/" characters
RECURSIVE StripSlashes(_)
StripSlashes(s) ==
  IF s # <<>> /\ Head(s) = "/" THEN StripSlashes(Tail(s)) ELSE s

\* The name/value pairs of a query string (URLSearchParams parsing): the
\* query is split on "&", empty pieces are dropped, and each piece on its
\* first "=".
RECURSIVE ParseQuery(_)
ParseQuery(pieces) ==
  IF pieces = <<>> THEN <<>>
  ELSE LET piece == Head(pieces)
           eq    == FirstOf(piece, "=")
       IN (IF piece = <<>> THEN <<>>
           ELSE IF eq = 0 THEN <<[name |-> piece, value |-> <<>>]>>
           ELSE <<[name  |-> SubSeq(piece, 1, eq - 1),
                   value |-> SubSeq(piece, eq + 1, Len(piece))]>>)
          \o ParseQuery(Tail(pieces))

\* application/x-www-form-urlencoded serialisation of one character
FormEncode(c) ==
  IF c = " " THEN <<"+">>
  ELSE IF c = "(" THEN <<"%", "2", "8">>
  ELSE IF c = ")" THEN <<"%", "2", "9">>
  ELSE IF c = Apostrophe THEN <<"%", "2", "7">>
  ELSE PercentEncode(c)

\* application/x-www-form-urlencoded serialisation of a string
RECURSIVE FormEncodeAll(_)
FormEncodeAll(s) ==
  IF s = <<>> THEN <<>> ELSE FormEncode(Head(s)) \o FormEncodeAll(Tail(s))

\* URLSearchParams serialisation: name=value pairs joined by "&"
RECURSIVE SerializeQuery(_)
SerializeQuery(pairs) ==
  IF pairs = <<>> THEN <<>>
  ELSE FormEncodeAll(Head(pairs).name) \o <<"=">> \o FormEncodeAll(Head(pairs).value)
         \o (IF Len(pairs) > 1 THEN <<"&">> ELSE <<>>)
         \o SerializeQuery(Tail(pairs))

\* s cut at the first occurrence of character c
Cut(s, c) ==
  IF FirstOf(s, c) = 0
    THEN [found |-> FALSE, before |-> s, after |-> <<>>]
    ELSE [found |-> TRUE, before |-> SubSeq(s, 1, FirstOf(s, c) - 1),
          after |-> SubSeq(s, FirstOf(s, c) + 1, Len(s))]

\* The parsed URL, from its scheme cut sc, fragment cut fr, query cut qu and
\* the host and path without leading slashes
ParsedURL(sc, fr, qu, hostPath) ==
  [ok |-> /\ sc.found
          /\ sc.before # <<>>
          /\ \A i \in 1..Len(sc.before) : sc.before[i] \in SchemeChars
          /\ sc.before \in SpecialSchemes => hostPath # <<>>,
   scheme |-> sc.before,
   body |-> IF sc.before \in SpecialSchemes
              THEN <<"/", "/">> \o hostPath
                     \o (IF FirstOf(hostPath, "/") = 0 THEN <<"/">> ELSE <<>>)
              ELSE qu.before,
   query |-> qu.after,
   fragment |-> fr.after]

\* The query is what follows the first "?" before the fragment
ParseQueryPart(sc, fr, qu) == ParsedURL(sc, fr, qu, StripSlashes(qu.before))

\* The fragment is what follows the first "#"
ParseFragment(sc, fr) == ParseQueryPart(sc, fr, Cut(fr.before, "?"))

\* The scheme is what stands before the first ":"
ParseScheme(sc) == ParseFragment(sc, Cut(sc.after, "#"))

\* new URL(urlString): [ok, scheme, body, query, fragment], where body is
\* what stands between "scheme:" and the query. A string without a scheme,
\* or a special scheme without a host, does not parse. For a special scheme
\* the slashes after the scheme become "//" and an empty path becomes "/".
ParseURL(urlString) == ParseScheme(Cut(urlString, ":"))

\* URL.toString() of a parsed URL whose search params are `pairs`, after a
\* URLSearchParams.delete updated the query
HrefWithParams(u, pairs) ==
  u.scheme \o <<":">> \o u.body
    \o (IF pairs = <<>> THEN <<>> ELSE <<"?">> \o SerializeQuery(pairs))
    \o (IF u.fragment # <<>> THEN <<"#">> \o u.fragment ELSE <<>>)

\* Mutant of paramsToRemove: gclid is not in the list
paramsToRemove_NoGclid ==
  {<<"u", "t", "m", "_", "s", "o", "u", "r", "c", "e">>,
   <<"u", "t", "m", "_", "m", "e", "d", "i", "u", "m">>,
   <<"u", "t", "m", "_", "c", "a", "m", "p", "a", "i", "g", "n">>,
   <<"u", "t", "m", "_", "t", "e", "r", "m">>,
   <<"u", "t", "m", "_", "c", "o", "n", "t", "e", "n", "t">>,
   <<"f", "b", "c", "l", "i", "d">>,
   <<"m", "s", "c", "l", "k", "i", "d">>}

\* const paramsToRemove
paramsToRemove ==
  {<<"u", "t", "m", "_", "s", "o", "u", "r", "c", "e">>,
   <<"u", "t", "m", "_", "m", "e", "d", "i", "u", "m">>,
   <<"u", "t", "m", "_", "c", "a", "m", "p", "a", "i", "g", "n">>,
   <<"u", "t", "m", "_", "t", "e", "r", "m">>,
   <<"u", "t", "m", "_", "c", "o", "n", "t", "e", "n", "t">>,
   <<"g", "c", "l", "i", "d">>,
   <<"f", "b", "c", "l", "i", "d">>,
   <<"m", "s", "c", "l", "k", "i", "d">>}

\* The return statement: a new string only if params were removed
ReturnCleaned(urlString, url, pairs, kept) ==
  IF kept # pairs THEN HrefWithParams(url, kept) ELSE urlString

\* The loop over paramsToRemove: searchParams.has(param), delete(param)
DeleteParams(urlString, url, pairs) ==
  ReturnCleaned(urlString, url, pairs,
                SelectSeq(pairs, LAMBDA q : q.name \notin paramsToRemove))

\* The try block, given the outcome of new URL(urlString)
CleanParsed(urlString, url) ==
  IF ~url.ok THEN urlString
  ELSE DeleteParams(urlString, url, ParseQuery(SplitOn(url.query, "&")))

\* removeUTMParams(urlString)
removeUTMParams(urlString) ==
  IF urlString = <<>> THEN <<>> ELSE CleanParsed(urlString, ParseURL(urlString))

(***************************************************************************)
(* applyTitlePreprocessing and isUrlFormat                                 *)
(***************************************************************************)

\* One action of a rule applied to processedTitle (the switch statement);
\* an action of any other type changes nothing.
ApplyAction(processedTitle, action) ==
  CASE action.type = "add_prefix" -> action.value1 \o processedTitle
    [] action.type = "add_suffix" -> processedTitle \o action.value1
    [] action.type = "remove"     -> ReplaceAll(processedTitle, action.value1, <<>>)
    [] action.type = "replace"    -> ReplaceAll(processedTitle, action.value1, action.value2)
    [] OTHER                      -> processedTitle

\* for (const action of rule.actions)
RECURSIVE ApplyActions(_, _)
ApplyActions(processedTitle, actions) ==
  IF actions = <<>> THEN processedTitle
  ELSE ApplyActions(ApplyAction(processedTitle, Head(actions)), Tail(actions))

\* TRUE when the rule applies to the page: url.startsWith(rule.url)
RuleMatches(url, rule) == StartsWith(url, rule.url)

\* Mutant of ApplyRules: the loop stops after the first rule that matches
RECURSIVE ApplyRules_FirstMatchOnly(_, _, _)
ApplyRules_FirstMatchOnly(processedTitle, url, rules) ==
  IF rules = <<>> THEN processedTitle
  ELSE IF RuleMatches(url, Head(rules))
         THEN ApplyActions(processedTitle, Head(rules).actions)
         ELSE ApplyRules_FirstMatchOnly(processedTitle, url, Tail(rules))

\* for (const rule of rules)
RECURSIVE ApplyRules(_, _, _)
ApplyRules(processedTitle, url, rules) ==
  IF rules = <<>> THEN processedTitle
  ELSE ApplyRules(IF RuleMatches(url, Head(rules))
                    THEN ApplyActions(processedTitle, Head(rules).actions)
                    ELSE processedTitle,
                  url, Tail(rules))

\* applyTitlePreprocessing(title, url, rules)
applyTitlePreprocessing(title, url, rules) ==
  IF rules = <<>> THEN title ELSE ApplyRules(title, url, rules)

\* isUrlFormat(format)
isUrlFormat(format) ==
  IF format = <<>> THEN FALSE ELSE Includes(format, <<":", "/", "/">>)

(***************************************************************************)
(* Bounds of the model.                                                    *)
(***************************************************************************)

\* Toolbar clicks in one behaviour
MaxClicks == 5

\* Title preprocessing rules in a stored rule list
MaxRules == 2

\* Calls of performClickAction followed in one behaviour
MaxActs == 1

\* Query parameters in a URL given to removeUTMParams
MaxParams == 2

\* User events on the options page in one behaviour
MaxOptEvents == 3

\* Pieces a format template is written from
MaxPieces == 3

\* User events on the annotator page in one behaviour
MaxAnnEvents == 7

(***************************************************************************)
(* Program constants and the texts used as inputs.                         *)
(***************************************************************************)

\* Maximum delay in milliseconds to wait for additional clicks
MULTI_CLICK_DELAY == 500

\* The placeholders of a format template
PH_TITLE == <<"<", "t", "i", "t", "l", "e", ">">>
PH_URL == <<"<", "u", "r", "l", ">">>
PH_QUOTE == <<"<", "q", "u", "o", "t", "e", ">">>

\* Badge texts and colours of showBadgeText's callers
BADGE_NONE == ""
BADGE_WARN == "warning-sign"
BADGE_LINK == "link"
BADGE_LAUNCH == "arrow-up"
BADGE_OK == "check-mark"
BADGE_ERROR == "Error"
COLOR_OK == "#4CAF50"
COLOR_ERROR == "#ff4444"

\* The text 'do_nothing'
DO_NOTHING == <<"d", "o", "_", "n", "o", "t", "h", "i", "n", "g">>

\* The five click types performClickAction is called with
ClickTypes == {"single", "double", "triple", "fourth", "fifth"}

\* const FALLBACK_FORMATS, by click type
FALLBACK_FORMATS ==
  [single |-> PH_TITLE \o <<"\n">> \o PH_URL,
   double |-> <<"[">> \o PH_TITLE \o <<"]", "(">> \o PH_URL \o <<")">>,
   triple |-> PH_TITLE,
   fourth |-> DO_NOTHING,
   fifth  |-> DO_NOTHING]

\* const DEFAULT_FORMAT_TYPES, by click type
DEFAULT_FORMAT_TYPES ==
  [single |-> "title_url_2_lines",
   double |-> "markdown",
   triple |-> "title_url_1_line",
   fourth |-> "do_nothing",
   fifth  |-> "do_nothing"]

\* const ACTION_DESCRIPTIONS: the name and the value of each format type;
\* the value of title_url_2_lines holds a backslash and an n.
ACTION_DESCRIPTIONS ==
  [do_nothing        |-> [name |-> "Do nothing", value |-> DO_NOTHING],
   title_url_2_lines |-> [name |-> "Title and url (2 lines)",
                          value |-> PH_TITLE \o <<"\\", "n">> \o PH_URL],
   title_url_1_line  |-> [name |-> "Title and url (1 line)",
                          value |-> PH_TITLE \o <<" ", "-", " ">> \o PH_URL],
   markdown          |-> [name |-> "Markdown",
                          value |-> <<"[">> \o PH_TITLE \o <<"]", "(">> \o PH_URL \o <<")">>],
   screenshot        |-> [name |-> "Screenshot",
                          value |-> <<"<", "s", "c", "r", "e", "e", "n", "s", "h", "o", "t", ">">>],
   custom            |-> [name |-> "Custom format", value |-> <<>>]]

\* chrome.runtime.getURL('launch_custom_url.html'), as one token
LAUNCH_PAGE == <<"chrome-extension://id/launch_custom_url.html">>

\* Pages a click may find highlighted. A tab is [id, title, url]; id 0 is a
\* tab without an id.
\* TabA's URL carries a tracking parameter, TabB's title holds a
\* placeholder and ends in a space, TabNoId's title holds a replacement
\* pattern.
TabA ==
  [id |-> 1, title |-> <<"a">>,
   url |-> <<"h", "t", "t", "p", ":", "/", "/", "x", "/", "?", "g", "c", "l", "i", "d", "=", "1">>]
TabB ==
  [id |-> 2, title |-> PH_URL \o <<" ">>,
   url |-> <<"h", "t", "t", "p", ":", "/", "/", "y">>]
TabNoId ==
  [id |-> 0, title |-> <<"$", "&">>, url |-> <<>>]

\* Results of chrome.tabs.query({highlighted, currentWindow}) in the click
\* listener: nothing, one tab, two tabs.
QueryResults == {<<>>, <<TabA>>, <<TabA, TabB>>}

\* The activeTab argument of the click listener: a tab, or one without id.
ActiveTabs == {TabA, [TabA EXCEPT !.id = 0]}

\* The badge at start: no text, no timer
NoBadge == [text |-> BADGE_NONE, color |-> COLOR_OK, timers |-> 0]

\* Stored rules: each has the page URL prefix and its actions
RuleX ==
  [url |-> <<"h", "t", "t", "p", ":", "/", "/", "x">>,
   actions |-> <<[type |-> "add_prefix", value1 |-> <<"p">>, value2 |-> <<>>],
                 [type |-> "add_suffix", value1 |-> <<"s">>, value2 |-> <<>>]>>]
RuleHttp ==
  [url |-> <<"h", "t", "t", "p", ":", "/", "/">>,
   actions |-> <<[type |-> "remove", value1 |-> <<"a">>, value2 |-> <<>>],
                 [type |-> "replace", value1 |-> <<"p">>, value2 |-> <<"a", "a">>]>>]
RuleY ==
  [url |-> <<"h", "t", "t", "p", ":", "/", "/", "y">>,
   actions |-> <<[type |-> "replace", value1 |-> <<"b">>, value2 |-> <<"p", "b">>]>>]
RulePool == {RuleX, RuleHttp, RuleY}

\* Nothing stored in chrome.storage.sync
NotStoredFormat == [set |-> FALSE, value |-> <<>>]
CfgNone ==
  [formats |-> [c \in ClickTypes |-> NotStoredFormat], rules |-> <<>>]

\* Stored formats: a copy template with the three placeholders, an https
\* template, a custom-scheme template, the two-line template as the options
\* page writes it (backslash, n), an empty text; and one title rule.
CfgCustom ==
  [formats |->
     [single |-> [set |-> TRUE,
                  value |-> PH_TITLE \o <<" ">> \o PH_URL \o <<" ">> \o PH_QUOTE],
      double |-> [set |-> TRUE,
                  value |-> <<"h", "t", "t", "p", "s", ":", "/", "/", "x", "?", "q", "=">>
                              \o PH_TITLE],
      triple |-> [set |-> TRUE,
                  value |-> <<"a", "p", "p", ":", "/", "/", "o", "?", "u", "=">> \o PH_URL],
      fourth |-> [set |-> TRUE, value |-> ACTION_DESCRIPTIONS.title_url_2_lines.value],
      fifth  |-> [set |-> TRUE, value |-> <<>>]],
   rules |-> <<RuleX>>]

StorageConfigs == {CfgNone, CfgCustom}

\* Tab lists performClickAction is called with: the first tab has an id
ActTabLists == {<<TabA>>, <<TabA, TabB>>, <<TabB, TabNoId>>}

\* Results of the window.getSelection() script: nothing selected, a text
\* with white space around it, a text holding a replacement pattern
Selections == {<<>>, <<" ", "q">>, <<"$", "&">>}

\* options.js: const PREDEFINED_FORMATS; the value of title_url_2_lines
\* holds a line break.
PREDEFINED_FORMATS ==
  [do_nothing        |-> [name |-> "Do nothing", value |-> DO_NOTHING],
   title_url_2_lines |-> [name |-> "Title and URL (2 lines)",
                          value |-> PH_TITLE \o <<"\n">> \o PH_URL],
   title_url_1_line  |-> [name |-> "Title and URL (1 line)",
                          value |-> PH_TITLE \o <<" ", "-", " ">> \o PH_URL],
   markdown          |-> [name |-> "Markdown",
                          value |-> <<"[">> \o PH_TITLE \o <<"]", "(">> \o PH_URL \o <<")">>],
   title             |-> [name |-> "Title", value |-> PH_TITLE],
   screenshot        |-> [name |-> "Screenshot",
                          value |-> ACTION_DESCRIPTIONS.screenshot.value],
   custom            |-> [name |-> "Custom Format", value |-> <<>>]]

\* options.js: const DEFAULT_FORMAT_VALUES, by click type
DEFAULT_FORMAT_VALUES ==
  [single |-> PREDEFINED_FORMATS.title_url_2_lines.value,
   double |-> PREDEFINED_FORMATS.markdown.value,
   triple |-> PREDEFINED_FORMATS.title_url_1_line.value,
   fourth |-> PREDEFINED_FORMATS.do_nothing.value,
   fifth  |-> PREDEFINED_FORMATS.do_nothing.value]

\* The form when the page has been parsed and the selects populated, before
\* loadSavedFormats fills it: every select shows its first option, the
\* textareas and the path are empty, the checkbox is not checked.
BlankForm ==
  [types    |-> [c \in ClickTypes |-> "do_nothing"],
   customs  |-> [c \in ClickTypes |-> <<>>],
   formats  |-> [c \in ClickTypes |-> <<>>],
   autoSave |-> FALSE,
   path     |-> <<>>]

\* The form resetToDefaults leaves
DefaultForm ==
  [types    |-> DEFAULT_FORMAT_TYPES,
   customs  |-> [c \in ClickTypes |-> <<>>],
   formats  |-> DEFAULT_FORMAT_VALUES,
   autoSave |-> FALSE,
   path     |-> <<>>]

\* No form: the value stored did not come from saveFormats
NoForm == [types |-> <<>>]

\* chrome.storage.sync and chrome.storage.local before anything is saved;
\* from records the form the stored value was taken from.
NotStoredSync ==
  [set |-> FALSE, types |-> DEFAULT_FORMAT_TYPES, formats |-> DEFAULT_FORMAT_VALUES,
   autoSaveScreenshot |-> FALSE, from |-> NoForm]
NotStoredLocal == [set |-> FALSE, screenshotSavePath |-> <<>>, from |-> NoForm]

\* No handler of the options page has ended, the form is not as loaded
NoOptHist ==
  [lastDone |-> "none", ok |-> FALSE, raced |-> FALSE, loaded |-> FALSE,
   fromSync |-> NoForm, fromLocal |-> NoForm]

\* What the user does on the options page: the click types whose select is
\* changed, the format types chosen, the texts typed
EditedClickTypes == {"single", "fourth"}
ChosenFormatTypes == {"custom", "title"}
TypedFormats == {<<" ", "a", " ">>}
TypedPaths == {<<"p", " ">>}

\* A form saved in an earlier session of the options page: a custom format
\* for the single click, screenshots saved to a folder
EarlierForm ==
  [types    |-> [DEFAULT_FORMAT_TYPES EXCEPT !.single = "custom"],
   customs  |-> [c \in ClickTypes |-> IF c = "single" THEN PH_URL ELSE <<>>],
   formats  |-> [DEFAULT_FORMAT_VALUES EXCEPT !.single = PH_URL],
   autoSave |-> TRUE,
   path     |-> <<"d">>]

\* No Annotator object
NoAnnotator == [open |-> FALSE]

(***************************************************************************)
(* State.                                                                  *)
(***************************************************************************)
VARIABLES
  clickCount,   \* let clickCount
  clickTimer,   \* let clickTimer: the id setTimeout returned last, 0 at start
  timers,       \* pending click timers of the event loop
  nextTimerId,  \* the next id setTimeout hands out
  queries,      \* click listeners waiting for chrome.tabs.query, in order
  clicks,       \* toolbar clicks so far
  badge,        \* chrome.action badge: text, colour, and the number of
                \* pending 3000 ms timers of showBadgeText
  started,      \* calls of performClickAction so far: [clickType, tabs]
  runLen,       \* history: clicks in the current run, 0 when broken
  runFired,     \* history: timers of the current run that fired
  train,        \* history: the clicks handled less than MULTI_CLICK_DELAY
                \* after the one before, and the actions dispatched since
                \* the first of them
  fnArg,        \* arguments of the pure function under study
  fnRet,        \* its result, NotApplied before the call
  storage,      \* chrome.storage.sync: the formats and the title rules
  customProtocolUrl, \* chrome.storage.local key customProtocolUrl
  act,          \* the call of performClickAction being followed
  invocations,  \* calls of performClickAction followed so far
  clipboard,    \* the system clipboard text
  pageJobs,     \* clipboard scripts running in pages, with their text
  messages,     \* runtime messages on their way to the worker
  launchPending, \* launch pages opened that have not read the storage yet
  form,         \* options page: the elements of the form
  syncItems,    \* chrome.storage.sync: the keys the options page writes
  localItems,   \* chrome.storage.local: screenshotSavePath
  handlers,     \* options page: async handlers waiting for a storage call
  optEvents,    \* options page: user events so far
  optHist,      \* history: the handler that ended last, what the form shows
  ann,          \* annotator page: the fields of the Annotator object
  annEvents,    \* annotator page: user events so far
  button        \* annotator page: where the mouse button went down, or "up"

clickVars == <<clickCount, clickTimer, timers, nextTimerId, queries, clicks,
               started, runLen, runFired, train>>
badgeVars == <<badge>>
fnVars == <<fnArg, fnRet>>
actVars == <<storage, customProtocolUrl, act, invocations, clipboard, pageJobs,
             messages, launchPending>>
optVars == <<form, syncItems, localItems, handlers, optEvents, optHist>>
annVars == <<ann, annEvents, button>>
pageVars == <<optVars, annVars>>
vars == <<clickVars, badgeVars, fnVars, actVars, pageVars>>

\* Everything but the click counting and the badge
nonClickVars == <<fnVars, actVars>>

\* No call of performClickAction is followed, nothing is stored
IdleAct == [pc |-> "idle"]
NoCustomUrl == [set |-> FALSE, value |-> <<>>]
ActIdle ==
  /\ storage = CfgNone
  /\ customProtocolUrl = NoCustomUrl
  /\ act = IdleAct
  /\ invocations = 0
  /\ clipboard = <<>>
  /\ pageJobs = <<>>
  /\ messages = <<>>
  /\ launchPending = 0

\* The options page is not open and nothing is stored
OptIdle ==
  /\ form = BlankForm
  /\ syncItems = NotStoredSync
  /\ localItems = NotStoredLocal
  /\ handlers = <<>>
  /\ optEvents = 0
  /\ optHist = NoOptHist

\* The annotator page is not open
AnnIdle ==
  /\ ann = NoAnnotator
  /\ annEvents = 0
  /\ button = "up"

\* Neither page is open
PageIdle == OptIdle /\ AnnIdle

\* No click has been handled
NoTrain == [len |-> 0, fired |-> 0, open |-> FALSE]

\* No pure function is under study
NotApplied == [applied |-> FALSE]
FnIdle ==
  /\ fnArg = NotApplied
  /\ fnRet = NotApplied

\* let clickCount = 0; let clickTimer = 0; nothing pending
ClickInit ==
  /\ clickCount = 0
  /\ clickTimer = 0
  /\ timers = {}
  /\ nextTimerId = 1
  /\ queries = <<>>
  /\ clicks = 0
  /\ badge = NoBadge
  /\ started = <<>>
  /\ runLen = 0
  /\ runFired = <<>>
  /\ train = NoTrain

\* The worker after its script has run
Init ==
  /\ ClickInit
  /\ FnIdle
  /\ ActIdle
  /\ PageIdle

(***************************************************************************)
(* showBadgeText                                                           *)
(***************************************************************************)

\* Mutant of BadgeAfter: the timer that clears the text is not started
BadgeAfter_NoTimer(b, text, isError) ==
  [text   |-> text,
   color  |-> IF isError THEN COLOR_ERROR ELSE COLOR_OK,
   timers |-> b.timers]

\* showBadgeText(text, isError) on badge state b: set the text and the
\* colour, and start a timer that clears the text after 3000 ms; the timer
\* is never cancelled.
BadgeAfter(b, text, isError) ==
  [text   |-> text,
   color  |-> IF isError THEN COLOR_ERROR ELSE COLOR_OK,
   timers |-> b.timers + 1]

\* A handler step that calls showBadgeText once
ShowBadgeText(text, isError) == badge' = BadgeAfter(badge, text, isError)

\* The callback of a showBadgeText timer: setBadgeText({text: ''})
BadgeTimerFire ==
  /\ badge.timers > 0
  /\ badge' = [badge EXCEPT !.text = BADGE_NONE, !.timers = @ - 1]
  /\ UNCHANGED <<pageVars, clickVars, nonClickVars>>

(***************************************************************************)
(* Click counting: the onClicked listener, performActionForTabs,           *)
(* registerClick and the timer callback.                                   *)
(***************************************************************************)

\* The click type whose action the n-th click of a run registers
ClickTypeOf(n) ==
  CASE n = 1 -> "single"
    [] n = 2 -> "double"
    [] n = 3 -> "triple"
    [] OTHER -> "none"

\* Mutant of ClearTimeout: the pending timer is left running
ClearTimeout_Forgotten(ts, id) == ts

\* clearTimeout(id) on the set of pending timers
ClearTimeout(ts, id) == {t \in ts : t.id # id}

\* TRUE when the timer clickTimer refers to has not fired and is not cleared
TimerPending == \E t \in timers : t.id = clickTimer

\* registerClick(fn, tabs, delay) after clearTimeout(clickTimer): the new
\* timer's id goes to clickTimer. A timer of delay 0 is due at once.
RegisterClick(clickType, tabs, delay) ==
  /\ timers' = ClearTimeout(timers, clickTimer)
                 \cup {[id |-> nextTimerId, clickType |-> clickType,
                        tabs |-> tabs, delay |-> delay, expired |-> (delay = 0)]}
  /\ clickTimer' = nextTimerId
  /\ nextTimerId' = nextTimerId + 1

\* performActionForTabs(tabs)
PerformActionForTabs(tabs) ==
  /\ IF clickCount + 1 = 1
       THEN /\ RegisterClick("single", tabs, MULTI_CLICK_DELAY)
            /\ clickCount' = clickCount + 1
     ELSE IF clickCount + 1 = 2
       THEN /\ RegisterClick("double", tabs, MULTI_CLICK_DELAY)
            /\ clickCount' = clickCount + 1
     ELSE IF clickCount + 1 = 3
       THEN /\ RegisterClick("triple", tabs, 0)
            /\ clickCount' = clickCount + 1
     ELSE /\ timers' = ClearTimeout(timers, clickTimer)
          /\ clickCount' = 0
          /\ UNCHANGED <<clickTimer, nextTimerId>>
  /\ IF runLen > 0 /\ TimerPending
       THEN /\ runLen' = runLen + 1
            /\ UNCHANGED runFired
       ELSE /\ runLen' = 1
            /\ runFired' = <<>>
  /\ train' = IF train.open
                THEN [train EXCEPT !.len = @ + 1]
                ELSE [len |-> 1, fired |-> 0, open |-> TRUE]

\* A toolbar click: the listener starts and awaits chrome.tabs.query.
Click ==
  /\ clicks < MaxClicks
  /\ clicks' = clicks + 1
  /\ \E a \in ActiveTabs : queries' = Append(queries, a)
  /\ UNCHANGED <<pageVars, clickCount, clickTimer, timers, nextTimerId, started,
                 runLen, runFired, train, badgeVars, nonClickVars>>

\* The query found no highlighted tab and activeTab has no id: the error
\* branch of the listener.
ClickNoValidTab ==
  /\ queries # <<>>
  /\ Head(queries).id = 0
  /\ queries' = Tail(queries)
  /\ ShowBadgeText(BADGE_WARN, TRUE)
  /\ clickCount' = 0
  /\ runLen' = 0
  /\ runFired' = <<>>
  /\ UNCHANGED <<pageVars, clickTimer, timers, nextTimerId, clicks, started,
                 train, nonClickVars>>

\* The query found no highlighted tab and activeTab is valid.
ClickActiveTab ==
  /\ queries # <<>>
  /\ Head(queries).id # 0
  /\ queries' = Tail(queries)
  /\ PerformActionForTabs(<<Head(queries)>>)
  /\ UNCHANGED <<pageVars, clicks, started, badgeVars, nonClickVars>>

\* The query found highlighted tabs.
ClickHighlighted ==
  /\ queries # <<>>
  /\ queries' = Tail(queries)
  /\ \E highlightedTabs \in QueryResults \ {<<>>} :
       PerformActionForTabs(highlightedTabs)
  /\ UNCHANGED <<pageVars, clicks, started, badgeVars, nonClickVars>>

\* The delay of a pending click timer elapses: MULTI_CLICK_DELAY has gone
\* by since the click that set it.
WindowExpires ==
  /\ \E t \in timers :
       /\ ~t.expired
       /\ timers' = (timers \ {t}) \cup {[t EXCEPT !.expired = TRUE]}
  /\ train' = [train EXCEPT !.open = FALSE]
  /\ UNCHANGED <<pageVars, clickCount, clickTimer, nextTimerId, queries, clicks,
                 started, runLen, runFired, badgeVars, nonClickVars>>

\* The callback registerClick gave to setTimeout: await fn(tabs), which
\* starts performClickAction(tabs, clickType) without awaiting it, then
\* clickCount = 0.
TimerFire ==
  /\ \E t \in timers :
       /\ t.expired
       /\ timers' = timers \ {t}
       /\ started' = Append(started, [clickType |-> t.clickType, tabs |-> t.tabs])
       /\ runFired' = Append(runFired, [clickType |-> t.clickType, waited |-> t.delay])
  /\ clickCount' = 0
  /\ train' = [train EXCEPT !.fired = @ + 1]
  /\ UNCHANGED <<pageVars, clickTimer, nextTimerId, queries, clicks, runLen, badgeVars,
                 nonClickVars>>

Next ==
  \/ Click
  \/ ClickNoValidTab
  \/ ClickActiveTab
  \/ ClickHighlighted
  \/ WindowExpires
  \/ TimerFire
  \/ BadgeTimerFire

Spec == Init /\ [][Next]_vars

(***************************************************************************)
(* performClickAction, openUrl, copyTextToClipboard, the injected          *)
(* clipboard script, the runtime.onMessage listener and the launch page.   *)
(* One call of performClickAction is followed from await to await; the     *)
(* '<screenshot>' template (captureAndCopyScreenshot) is not among the     *)
(* stored templates here.                                                  *)
(***************************************************************************)

\* chrome.storage.sync.get(defaults) for one format key: the stored value,
\* or the default FALLBACK_FORMATS gives
SyncGetFormat(result, clickType) ==
  IF result.formats[clickType].set
    THEN result.formats[clickType].value
    ELSE FALLBACK_FORMATS[clickType]

\* result[formatKey] || FALLBACK_FORMATS[formatKey] || ''
StoredOrFallback(result, clickType) ==
  IF SyncGetFormat(result, clickType) # <<>>
    THEN SyncGetFormat(result, clickType)
    ELSE FALLBACK_FORMATS[clickType]

\* formatTemplate after formatTemplate.replace(/\\n/g, '\n')
FormatTemplateOf(result, clickType) ==
  ReplaceAll(StoredOrFallback(result, clickType), <<"\\", "n">>, <<"\n">>)

\* const url = removeUTMParams(tab.url || '')
TabUrl(tab) == removeUTMParams(tab.url)

\* quote from the result of the injected window.getSelection() script
QuoteOf(selection) == IF selection # <<>> THEN Trim(selection) ELSE <<>>

\* The text pushed to textsToCopy for a tab (copy action)
CopyText(formatTemplate, title, url, quote) ==
  Trim(ReplaceAll(ReplaceAll(ReplaceAll(formatTemplate, PH_TITLE, title),
                             PH_URL, url),
                  PH_QUOTE, quote))

\* The text pushed to urlsToOpen for a tab (open action)
OpenText(formatTemplate, title, url, quote) ==
  Trim(ReplaceAll(ReplaceAll(ReplaceAll(formatTemplate, PH_TITLE,
                                        encodeURIComponent(title)),
                             PH_URL, encodeURIComponent(url)),
                  PH_QUOTE, encodeURIComponent(quote)))

\* Mutant of CombinedText: the texts are joined by one newline
CombinedText_OneNewline(textsToCopy) == Join(textsToCopy, <<"\n">>)

\* const combinedText = textsToCopy.join('\n\n')
CombinedText(textsToCopy) == Join(textsToCopy, <<"\n", "\n">>)

\* Mutant of OpensDirectly: a URL of any scheme is opened directly
OpensDirectly_AnyScheme(url) == Includes(url, <<":", "/", "/">>)

\* url.startsWith('http://') || url.startsWith('https://')
OpensDirectly(url) ==
  \/ StartsWith(url, <<"h", "t", "t", "p", ":", "/", "/">>)
  \/ StartsWith(url, <<"h", "t", "t", "p", "s", ":", "/", "/">>)

\* The local variables of a call of performClickAction that has just begun
\* (pc "get": awaiting chrome.storage.sync.get), and the history kept of it:
\* quotes and selections per tab, the API calls of openUrl per URL, the
\* texts given to the clipboard script, whether the settings were read (got),
\* whether the outer catch ran (failed), the badge shown by its last step.
NewAct(clickType, tabs) ==
  [pc |-> "get", clickType |-> clickType, tabs |-> tabs,
   formatTemplate |-> <<>>, rules |-> <<>>, isUrlAction |-> FALSE,
   textsToCopy |-> <<>>, urlsToOpen |-> <<>>, i |-> 1, j |-> 1,
   quotes |-> <<>>, selections |-> <<>>, calls |-> <<>>, copies |-> <<>>,
   got |-> FALSE, failed |-> FALSE, lastBadge |-> BADGE_NONE]

\* The body of the loop for one tab once its quote is known: the formatted
\* text is pushed and the loop moves to the next tab.
PushText(a, quote, how, url, title) ==
  [a EXCEPT
     !.textsToCopy = IF a.isUrlAction THEN @
                     ELSE Append(@, CopyText(a.formatTemplate, title, url, quote)),
     !.urlsToOpen  = IF a.isUrlAction
                     THEN Append(@, OpenText(a.formatTemplate, title, url, quote))
                     ELSE @,
     !.quotes      = Append(@, quote),
     !.selections  = Append(@, how),
     !.i           = @ + 1]

\* title = applyTitlePreprocessing(tab.title || '', url, rules)
WithTitle(a, quote, how, url) ==
  PushText(a, quote, how, url,
           applyTitlePreprocessing(a.tabs[a.i].title, url, a.rules))

\* url = removeUTMParams(tab.url || '')
FormatTab(a, quote, how) == WithTitle(a, quote, how, TabUrl(a.tabs[a.i]))

\* showBadgeText called by a step of the action a
WithBadge(st, text, isError) ==
  [a |-> [st.a EXCEPT !.lastBadge = text],
   b |-> BadgeAfter(st.b, text, isError)]

\* The action ends
Done(st) == [st EXCEPT !.a.pc = "done"]

\* openUrl for the j-th URL up to its first await, or the end of the loop
\* over urlsToOpen: openedAtLeastOne is true once the loop body ran, and
\* the link badge is shown.
OpenNext(st) ==
  IF st.a.j > Len(st.a.urlsToOpen)
    THEN IF st.a.urlsToOpen # <<>>
           THEN Done(WithBadge(st, BADGE_LINK, FALSE))
           ELSE Done(WithBadge(st, BADGE_WARN, TRUE))
    ELSE IF OpensDirectly(st.a.urlsToOpen[st.a.j])
           THEN [st EXCEPT !.a.pc = "create"]
           ELSE [st EXCEPT !.a.pc = "set"]

\* What follows the loop over the tabs: the URLs are opened one after the
\* other, or the texts are joined and given to copyTextToClipboard, which
\* awaits chrome.scripting.executeScript on the first tab.
AfterLoop(st) ==
  IF st.a.isUrlAction THEN OpenNext(st)
  ELSE IF st.a.textsToCopy # <<>>
    THEN IF st.a.tabs[1].id # 0
           THEN [st EXCEPT !.a.pc = "inject",
                           !.a.copies = Append(@, CombinedText(st.a.textsToCopy))]
           ELSE Done(WithBadge(st, BADGE_WARN, TRUE))
    ELSE Done(WithBadge(st, BADGE_WARN, TRUE))

\* for (const tab of tabs), from tab i: a tab with an id awaits the
\* selection script (pc "sel"); a tab without id is formatted at once with
\* an empty quote.
RECURSIVE LoopFrom(_)
LoopFrom(st) ==
  IF st.a.i > Len(st.a.tabs) THEN AfterLoop(st)
  ELSE IF st.a.tabs[st.a.i].id # 0 THEN [st EXCEPT !.a.pc = "sel"]
  ELSE LoopFrom([st EXCEPT !.a = FormatTab(st.a, <<>>, "noid")])

\* The code between the resolution of chrome.storage.sync.get and the next
\* await
AfterSyncGet(st, result) ==
  LET formatTemplate == FormatTemplateOf(result, st.a.clickType)
      a1 == [st.a EXCEPT !.got = TRUE,
                         !.formatTemplate = formatTemplate,
                         !.rules = result.rules,
                         !.isUrlAction = isUrlFormat(formatTemplate)]
  IN IF formatTemplate = DO_NOTHING THEN Done([st EXCEPT !.a = a1])
     ELSE LoopFrom([st EXCEPT !.a = a1])

\* Mutant of AfterSelectionRejected: the rejection reaches the outer catch
AfterSelectionRejected_Aborts(st) ==
  Done(WithBadge([st EXCEPT !.a.failed = TRUE], BADGE_WARN, TRUE))

\* catch (e) around the selection script: proceed without selected text
AfterSelectionRejected(st) ==
  LoopFrom([st EXCEPT !.a = FormatTab(st.a, <<>>, "rejected")])

\* An API call of openUrl for the j-th URL and how it ended, for the history
LogCall(st, api, arg, ok) ==
  [st EXCEPT !.a.calls = Append(@, [j |-> st.a.j, api |-> api, arg |-> arg, ok |-> ok])]

\* The end of openUrl for the j-th URL (its badge is shown already) and the
\* next turn of the loop over urlsToOpen
AfterOpenUrl(st) == OpenNext([st EXCEPT !.a.j = @ + 1])

\* The action and the badge before a step
Now == [a |-> act, b |-> badge]

\* A step leaves the action and the badge as st says
Becomes(st) ==
  /\ act' = st.a
  /\ badge' = st.b

\* performSingle/Double/Triple/Fourth/FifthClickAction(tabs), called by the
\* click timer, the context menu or a keyboard command: performClickAction
\* runs up to await chrome.storage.sync.get.
StartAction ==
  /\ act.pc \in {"idle", "done"}
  /\ invocations < MaxActs
  /\ invocations' = invocations + 1
  /\ \E clickType \in ClickTypes, tabs \in ActTabLists :
       IF tabs = <<>>
         THEN Becomes(Done(WithBadge([a |-> NewAct(clickType, tabs), b |-> badge],
                                     BADGE_WARN, TRUE)))
         ELSE Becomes([a |-> NewAct(clickType, tabs), b |-> badge])
  /\ UNCHANGED <<pageVars, storage, customProtocolUrl, clipboard, pageJobs, messages,
                 launchPending, clickVars, fnVars>>

\* chrome.storage.sync.get resolves
SyncGetResolves ==
  /\ act.pc = "get"
  /\ Becomes(AfterSyncGet(Now, storage))
  /\ UNCHANGED <<pageVars, storage, customProtocolUrl, invocations, clipboard, pageJobs,
                 messages, launchPending, clickVars, fnVars>>

\* chrome.storage.sync.get rejects: the outer catch shows the warning badge
SyncGetRejects ==
  /\ act.pc = "get"
  /\ Becomes(Done(WithBadge([Now EXCEPT !.a.failed = TRUE], BADGE_WARN, TRUE)))
  /\ UNCHANGED <<pageVars, storage, customProtocolUrl, invocations, clipboard, pageJobs,
                 messages, launchPending, clickVars, fnVars>>

\* The selection script of tab i resolves with the page's selected text
SelectionResolves ==
  /\ act.pc = "sel"
  /\ \E selection \in Selections :
       Becomes(LoopFrom([Now EXCEPT !.a = FormatTab(act, QuoteOf(selection),
                           IF selection = <<>> THEN "none" ELSE "selected")]))
  /\ UNCHANGED <<pageVars, storage, customProtocolUrl, invocations, clipboard, pageJobs,
                 messages, launchPending, clickVars, fnVars>>

\* The selection script of tab i cannot be injected
SelectionRejects ==
  /\ act.pc = "sel"
  /\ Becomes(AfterSelectionRejected(Now))
  /\ UNCHANGED <<pageVars, storage, customProtocolUrl, invocations, clipboard, pageJobs,
                 messages, launchPending, clickVars, fnVars>>

\* openUrl: chrome.tabs.create({url}) resolves, the link badge is shown
TabsCreateResolves ==
  /\ act.pc = "create"
  /\ Becomes(AfterOpenUrl(WithBadge(
         LogCall(Now, "tabs.create", act.urlsToOpen[act.j], TRUE),
         BADGE_LINK, FALSE)))
  /\ UNCHANGED <<pageVars, storage, customProtocolUrl, invocations, clipboard, pageJobs,
                 messages, launchPending, clickVars, fnVars>>

\* openUrl: chrome.tabs.create({url}) rejects, the catch shows the warning
TabsCreateRejects ==
  /\ act.pc = "create"
  /\ Becomes(AfterOpenUrl(WithBadge(
         LogCall(Now, "tabs.create", act.urlsToOpen[act.j], FALSE),
         BADGE_WARN, TRUE)))
  /\ UNCHANGED <<pageVars, storage, customProtocolUrl, invocations, clipboard, pageJobs,
                 messages, launchPending, clickVars, fnVars>>

\* openUrl: chrome.storage.local.set({customProtocolUrl: url}) resolves;
\* chrome.tabs.create of the launch page is awaited next.
LocalSetResolves ==
  /\ act.pc = "set"
  /\ customProtocolUrl' = [set |-> TRUE, value |-> act.urlsToOpen[act.j]]
  /\ Becomes([LogCall(Now, "storage.local.set", act.urlsToOpen[act.j], TRUE)
                EXCEPT !.a.pc = "launch"])
  /\ UNCHANGED <<pageVars, storage, invocations, clipboard, pageJobs, messages,
                 launchPending, clickVars, fnVars>>

\* openUrl: chrome.storage.local.set rejects
LocalSetRejects ==
  /\ act.pc = "set"
  /\ Becomes(AfterOpenUrl(WithBadge(
         LogCall(Now, "storage.local.set", act.urlsToOpen[act.j], FALSE),
         BADGE_WARN, TRUE)))
  /\ UNCHANGED <<pageVars, storage, customProtocolUrl, invocations, clipboard, pageJobs,
                 messages, launchPending, clickVars, fnVars>>

\* openUrl: chrome.tabs.create of the launch page resolves
LaunchCreateResolves ==
  /\ act.pc = "launch"
  /\ launchPending' = launchPending + 1
  /\ Becomes(AfterOpenUrl(WithBadge(
         LogCall(Now, "tabs.create", LAUNCH_PAGE, TRUE), BADGE_LAUNCH, FALSE)))
  /\ UNCHANGED <<pageVars, storage, customProtocolUrl, invocations, clipboard, pageJobs,
                 messages, clickVars, fnVars>>

\* openUrl: chrome.tabs.create of the launch page rejects
LaunchCreateRejects ==
  /\ act.pc = "launch"
  /\ Becomes(AfterOpenUrl(WithBadge(
         LogCall(Now, "tabs.create", LAUNCH_PAGE, FALSE), BADGE_WARN, TRUE)))
  /\ UNCHANGED <<pageVars, storage, customProtocolUrl, invocations, clipboard, pageJobs,
                 messages, launchPending, clickVars, fnVars>>

\* launch_custom_url.js: the page reads customProtocolUrl and, when it is
\* there, removes it from storage.
LaunchPageLoads ==
  /\ launchPending > 0
  /\ launchPending' = launchPending - 1
  /\ customProtocolUrl' = NoCustomUrl
  /\ UNCHANGED <<pageVars, storage, act, invocations, clipboard, pageJobs, messages,
                 badgeVars, clickVars, fnVars>>

\* copyTextToClipboard: the clipboard script is injected into the first tab
\* and starts navigator.clipboard.writeText(text)
InjectResolves ==
  /\ act.pc = "inject"
  /\ pageJobs' = Append(pageJobs, act.copies[Len(act.copies)])
  /\ Becomes(Done(Now))
  /\ UNCHANGED <<pageVars, storage, customProtocolUrl, invocations, clipboard, messages,
                 launchPending, clickVars, fnVars>>

\* copyTextToClipboard: executeScript rejects, the catch shows 'Error'
InjectRejects ==
  /\ act.pc = "inject"
  /\ Becomes(Done(WithBadge(Now, BADGE_ERROR, TRUE)))
  /\ UNCHANGED <<pageVars, storage, customProtocolUrl, invocations, clipboard, pageJobs,
                 messages, launchPending, clickVars, fnVars>>

\* In the page: writeText succeeds, or it fails and execCommand('copy') on
\* the hidden textarea copies the text; either way copySuccess is sent.
PageCopies ==
  /\ pageJobs # <<>>
  /\ clipboard' = Head(pageJobs)
  /\ pageJobs' = Tail(pageJobs)
  /\ messages' = Append(messages, "copySuccess")
  /\ UNCHANGED <<pageVars, storage, customProtocolUrl, act, invocations, launchPending,
                 badgeVars, clickVars, fnVars>>

\* In the page: writeText fails and execCommand('copy') returns false
\* without throwing: nothing is copied, copySuccess is sent all the same.
PageCopyUnchanged ==
  /\ pageJobs # <<>>
  /\ pageJobs' = Tail(pageJobs)
  /\ messages' = Append(messages, "copySuccess")
  /\ UNCHANGED <<pageVars, storage, customProtocolUrl, act, invocations, clipboard,
                 launchPending, badgeVars, clickVars, fnVars>>

\* In the page: writeText fails and execCommand('copy') throws; copyError
\* is sent.
PageCopyFails ==
  /\ pageJobs # <<>>
  /\ pageJobs' = Tail(pageJobs)
  /\ messages' = Append(messages, "copyError")
  /\ UNCHANGED <<pageVars, storage, customProtocolUrl, act, invocations, clipboard,
                 launchPending, badgeVars, clickVars, fnVars>>

\* chrome.runtime.onMessage listener
OnMessage ==
  /\ messages # <<>>
  /\ messages' = Tail(messages)
  /\ IF Head(messages) = "copySuccess"
       THEN ShowBadgeText(BADGE_OK, FALSE)
       ELSE ShowBadgeText(BADGE_WARN, TRUE)
  /\ UNCHANGED <<pageVars, storage, customProtocolUrl, act, invocations, clipboard,
                 pageJobs, launchPending, clickVars, fnVars>>

\* A configuration is stored, nothing is running
ActInit ==
  /\ ClickInit
  /\ FnIdle
  /\ PageIdle
  /\ storage \in StorageConfigs
  /\ customProtocolUrl = NoCustomUrl
  /\ act = IdleAct
  /\ invocations = 0
  /\ clipboard = <<>>
  /\ pageJobs = <<>>
  /\ messages = <<>>
  /\ launchPending = 0

ActNext ==
  \/ StartAction
  \/ SyncGetResolves
  \/ SyncGetRejects
  \/ SelectionResolves
  \/ SelectionRejects
  \/ TabsCreateResolves
  \/ TabsCreateRejects
  \/ LocalSetResolves
  \/ LocalSetRejects
  \/ LaunchCreateResolves
  \/ LaunchCreateRejects
  \/ LaunchPageLoads
  \/ InjectResolves
  \/ InjectRejects
  \/ PageCopies
  \/ PageCopyUnchanged
  \/ PageCopyFails
  \/ OnMessage
  \/ BadgeTimerFire

ActSpec == ActInit /\ [][ActNext]_vars

(***************************************************************************)
(* Click-count disambiguation (C1, C2)                                     *)
(***************************************************************************)

\* A run is a chain of clicks each of which performActionForTabs handles
\* while the timer of the click before it is pending; runLen counts them and
\* runFired lists the timers of the run that fired.

\* C1: for a run of n clicks, n in 1..3, at most one action is dispatched
\* and no timer of an earlier click survives: either the only pending timer
\* is the one of the n-th click type and nothing of the run has fired, or
\* exactly one action fired, of the n-th click type, and nothing is pending;
\* a single-click action fired only after waiting MULTI_CLICK_DELAY.
C1_OneActionPerRun ==
  runLen \in 1..3 =>
    \/ /\ runFired = <<>>
       /\ timers # {}
       /\ \A t \in timers : t.id = clickTimer /\ t.clickType = ClickTypeOf(runLen)
       /\ clickCount = runLen
    \/ /\ Len(runFired) = 1
       /\ runFired[1].clickType = ClickTypeOf(runLen)
       /\ runFired[1].clickType = "single" => runFired[1].waited = MULTI_CLICK_DELAY
       /\ timers = {}

\* C1 witness: a run of three clicks whose triple-click action has fired
C1_Witness ==
  /\ runLen = 3
  /\ Len(runFired) = 1
  /\ runFired[1].clickType = "triple"

\* C2: once the second (third) click of a run is handled, the double
\* (triple) click action has been dispatched, with no delay waited for.
C2_DoubleTripleImmediate ==
  runLen \in {2, 3} =>
    /\ Len(runFired) = 1
    /\ runFired[1].clickType = ClickTypeOf(runLen)
    /\ runFired[1].waited = 0

(***************************************************************************)
(* applyTitlePreprocessing on bounded inputs (C10)                         *)
(***************************************************************************)

\* Rule lists of at most MaxRules rules
RuleLists == UNION {[1..n -> RulePool] : n \in 0..MaxRules}

\* Page titles and page URLs
PreTitles == {<<>>, <<"a">>, <<"a", "b", "p">>}
PreUrls ==
  {<<"h", "t", "t", "p", ":", "/", "/", "x", "/", "1">>,
   <<"h", "t", "t", "p", ":", "/", "/", "y">>,
   <<"f", "t", "p", ":", "/", "/", "z">>}

\* A title, a URL and a rule list are chosen
TitleInit ==
  /\ ClickInit
  /\ ActIdle
  /\ PageIdle
  /\ fnArg \in [title : PreTitles, url : PreUrls, rules : RuleLists]
  /\ fnRet = NotApplied

\* title = applyTitlePreprocessing(title, url, rules)
ApplyTitlePreprocessing ==
  /\ fnRet = NotApplied
  /\ fnRet' = [applied |-> TRUE,
               value |-> applyTitlePreprocessing(fnArg.title, fnArg.url, fnArg.rules)]
  /\ UNCHANGED <<pageVars, fnArg, clickVars, badgeVars, actVars>>

TitleNext == ApplyTitlePreprocessing

TitleSpec == TitleInit /\ [][TitleNext]_vars

\* The rules of the list whose url is a prefix of the page URL, in order
C10_Matching == SelectSeq(fnArg.rules, LAMBDA r : StartsWith(fnArg.url, r.url))

\* The actions of those rules, in rule order and within a rule in action order
C10_Actions ==
  LET m == C10_Matching
      F[i \in 0..Len(m)] == IF i = 0 THEN <<>> ELSE F[i - 1] \o m[i].actions
  IN F[Len(m)]

\* C10: the result is the title when no rule's url is a prefix of the page
\* URL (the empty list included); otherwise it is the title after every
\* action of every matching rule, in rule order and action order, each
\* applied to the result of the one before.
C10_TitlePreprocessing ==
  fnRet.applied =>
    LET acts == C10_Actions
        G[i \in 0..Len(acts)] ==
          IF i = 0 THEN fnArg.title ELSE ApplyAction(G[i - 1], acts[i])
    IN /\ C10_Matching = <<>> => fnRet.value = fnArg.title
       /\ fnRet.value = G[Len(acts)]

\* C10 witness: two rules match and their actions changed the title
C10_Witness ==
  /\ fnRet.applied
  /\ Len(C10_Matching) = 2
  /\ C10_Matching[1] # C10_Matching[2]
  /\ fnRet.value # fnArg.title

(***************************************************************************)
(* performClickAction: formatting, copying, opening (C3..C7, C9)           *)
(***************************************************************************)

\* The title and the URL the loop computes for the i-th tab of the action
C3_Url(i) == TabUrl(act.tabs[i])
C3_Title(i) == applyTitlePreprocessing(act.tabs[i].title, C3_Url(i), act.rules)

\* The template read once from left to right: each placeholder found in the
\* template itself gives way to its value, and the values are not read again
RECURSIVE C3_Verbatim(_, _, _, _)
C3_Verbatim(template, title, url, quote) ==
  IF template = <<>> THEN <<>>
  ELSE IF StartsWith(template, PH_TITLE)
    THEN title \o C3_Verbatim(SubSeq(template, Len(PH_TITLE) + 1, Len(template)),
                              title, url, quote)
  ELSE IF StartsWith(template, PH_URL)
    THEN url \o C3_Verbatim(SubSeq(template, Len(PH_URL) + 1, Len(template)),
                            title, url, quote)
  ELSE IF StartsWith(template, PH_QUOTE)
    THEN quote \o C3_Verbatim(SubSeq(template, Len(PH_QUOTE) + 1, Len(template)),
                              title, url, quote)
  ELSE <<Head(template)>> \o C3_Verbatim(Tail(template), title, url, quote)

\* C3: for a copy action, the text of every tab handled so far is the
\* template with each placeholder replaced by the tab's title, URL and
\* selected text, the inserted values standing verbatim (trimmed at both
\* ends as a whole).
C3_VerbatimSubstitution ==
  (act.pc # "idle" /\ act.got /\ ~act.isUrlAction) =>
    \A i \in 1..Len(act.textsToCopy) :
      act.textsToCopy[i] =
        Trim(C3_Verbatim(act.formatTemplate, C3_Title(i), C3_Url(i), act.quotes[i]))

\* The texts of the sequence ts with a blank line between two of them
RECURSIVE C4_BlankLineJoined(_)
C4_BlankLineJoined(ts) ==
  IF ts = <<>> THEN <<>>
  ELSE IF Len(ts) = 1 THEN ts[1]
  ELSE ts[1] \o <<"\n", "\n">> \o C4_BlankLineJoined(Tail(ts))

\* The text the code computes for the i-th tab of a copy action
C4_TextOf(i) ==
  CopyText(act.formatTemplate, C3_Title(i), C3_Url(i), act.quotes[i])

C5_TextWithoutQuote(i) ==
  IF act.isUrlAction
    THEN Trim(ReplaceAll(ReplaceAll(ReplaceAll(act.formatTemplate, PH_QUOTE, <<>>),
                                    PH_TITLE, encodeURIComponent(C3_Title(i))),
                         PH_URL, encodeURIComponent(C3_Url(i))))
    ELSE Trim(ReplaceAll(ReplaceAll(ReplaceAll(act.formatTemplate, PH_QUOTE, <<>>),
                                    PH_TITLE, C3_Title(i)),
                         PH_URL, C3_Url(i)))

\* The text pushed for the i-th tab
C5_Pushed(i) ==
  IF act.isUrlAction THEN act.urlsToOpen[i] ELSE act.textsToCopy[i]

\* C5: for a tab with nothing selected, with a selection script that failed
\* or without an id, the quote is empty and the text of the tab is the
\* template with every <quote> gone; and an action that has read the
\* settings and ended has not reached the outer catch and has a text for
\* every tab.
C5_EmptyQuoteCompletes ==
  (act.pc # "idle" /\ act.got) =>
    /\ \A i \in 1..Len(act.selections) :
         act.selections[i] \in {"none", "rejected", "noid"} =>
           /\ act.quotes[i] = <<>>
           /\ C5_Pushed(i) = C5_TextWithoutQuote(i)
    /\ \A i \in 1..Len(act.tabs) :
         (i <= Len(act.selections) /\ act.tabs[i].id = 0) => act.selections[i] = "noid"
    /\ (act.pc = "done" /\ act.formatTemplate # DO_NOTHING) =>
         /\ ~act.failed
         /\ Len(act.selections) = Len(act.tabs)
         /\ Len(act.textsToCopy) + Len(act.urlsToOpen) = Len(act.tabs)

\* C5 witness: an action on two tabs has ended; the selection script of the
\* first tab failed, the second tab has no id, and the template holds <quote>
C5_Witness ==
  /\ act.pc = "done"
  /\ act.got
  /\ Includes(act.formatTemplate, PH_QUOTE)
  /\ act.selections = <<"rejected", "noid">>

\* The URL starts with http:// or with https://
C6_IsHttp(url) ==
  \/ StartsWith(url, <<"h", "t", "t", "p", ":", "/", "/">>)
  \/ StartsWith(url, <<"h", "t", "t", "p", "s", ":", "/", "/">>)

\* The API calls openUrl made for the j-th URL, in order
C6_CallsFor(j) == SelectSeq(act.calls, LAMBDA c : c.j = j)

\* The calls of openUrl(url), when it has ended, are those of its branch
C6_CallsOfBranch(cs, url) ==
  IF C6_IsHttp(url)
    THEN /\ Len(cs) = 1
         /\ cs[1].api = "tabs.create"
         /\ cs[1].arg = url
    ELSE /\ Len(cs) \in {1, 2}
         /\ cs[1].api = "storage.local.set"
         /\ cs[1].arg = url
         /\ Len(cs) = 1 => ~cs[1].ok
         /\ Len(cs) = 2 => /\ cs[1].ok
                           /\ cs[2].api = "tabs.create"
                           /\ cs[2].arg = LAUNCH_PAGE

\* C6: a tab is created on a URL only if the URL starts with http:// or
\* https://, and openUrl on such a URL creates that tab and does nothing
\* else; openUrl on any other URL stores it under customProtocolUrl and then
\* creates the tab of the launch page, and nothing else; what is stored under
\* customProtocolUrl is never an http(s) URL.
C6_DirectIffHttp ==
  (act.pc # "idle" /\ act.got /\ act.isUrlAction) =>
    /\ \A k \in 1..Len(act.calls) :
         /\ act.calls[k].j \in 1..Len(act.urlsToOpen)
         /\ (act.calls[k].api = "tabs.create" /\ act.calls[k].arg # LAUNCH_PAGE) =>
              /\ act.calls[k].arg = act.urlsToOpen[act.calls[k].j]
              /\ C6_IsHttp(act.calls[k].arg)
         /\ act.calls[k].api = "storage.local.set" => ~C6_IsHttp(act.calls[k].arg)
    /\ \A j \in 1..Len(act.urlsToOpen) :
         j < act.j => C6_CallsOfBranch(C6_CallsFor(j), act.urlsToOpen[j])
    /\ customProtocolUrl.set => ~C6_IsHttp(customProtocolUrl.value)

\* C6 witness: an open action on a custom-scheme URL has ended; the URL was
\* stored and the launch page opened
C6_Witness ==
  /\ act.pc = "done"
  /\ act.isUrlAction
  /\ Len(act.calls) = 2
  /\ ~C6_IsHttp(act.urlsToOpen[1])
  /\ act.calls[2].arg = LAUNCH_PAGE
  /\ act.calls[2].ok
  /\ customProtocolUrl = [set |-> TRUE, value |-> act.urlsToOpen[1]]

\* C7: when an open action has ended, the last badge it showed is the link
\* badge only if every call made to open its URLs succeeded, and it is the
\* warning badge if a call failed.
C7_BadgeReflectsOutcome ==
  (act.pc = "done" /\ act.got /\ act.isUrlAction) =>
    /\ act.lastBadge = BADGE_LINK => \A k \in 1..Len(act.calls) : act.calls[k].ok
    /\ (\E k \in 1..Len(act.calls) : ~act.calls[k].ok) => act.lastBadge = BADGE_WARN

\* The template of a format type as performClickAction would apply it: the
\* backslash and n of the stored value stand for a line break
C9_Documented(clickType) ==
  ReplaceAll(ACTION_DESCRIPTIONS[DEFAULT_FORMAT_TYPES[clickType]].value,
             <<"\\", "n">>, <<"\n">>)

\* C9: with nothing stored, the template a single, double or triple click
\* applies is the one of the default format type, which the action-button
\* title names for that click.
C9_DefaultsApplied ==
  (act.pc # "idle" /\ act.got /\ storage = CfgNone
     /\ act.clickType \in {"single", "double", "triple"}) =>
    act.formatTemplate = C9_Documented(act.clickType)

(***************************************************************************)
(* The badge clears (C8)                                                   *)
(***************************************************************************)

\* The actions of ActSpec, with the event loop running every callback of a
\* showBadgeText timer that is due: setTimeout callbacks are not cancelled
\* and the event loop does not starve them.
BadgeSpec == ActInit /\ [][ActNext]_vars /\ WF_vars(BadgeTimerFire)

\* C8: whatever calls of showBadgeText are made (by openUrl, by the copy
\* messages, by the catch blocks), from some moment on the badge text is
\* the empty string.
C8_BadgeEventuallyClears == <>[](badge.text = BADGE_NONE)

\* C8 witness: an action has ended on the red warning badge, the timers of
\* all the badges shown have fired and the text is empty
C8_Witness ==
  /\ act.pc = "done"
  /\ act.lastBadge = BADGE_WARN
  /\ badge.color = COLOR_ERROR
  /\ badge.timers = 0
  /\ badge.text = BADGE_NONE

(***************************************************************************)
(* removeUTMParams on bounded inputs (C11)                                 *)
(***************************************************************************)

\* What stands before the host: two special schemes, a custom scheme, and
\* no scheme at all (new URL throws)
UrlSchemes == {<<"h", "t", "t", "p", ":">>, <<"h", "t", "t", "p", "s", ":">>, <<"a", "p", "p", ":">>, <<>>}

\* Host and path
UrlHostPaths == {<<"/", "/", "x">>, <<"/", "/", "x", "/", "p">>}

\* Query parameters as written in the URL: two plain ones, one of them with
\* a name that begins like a tracking parameter, and two tracking ones, one
\* of them without "="
UrlParamPool == {<<"a", "=", "1">>, <<"u", "t", "m", "_", "s", "o", "u", "r", "c", "e", "x", "=", "3">>, <<"u", "t", "m", "_", "s", "o", "u", "r", "c", "e", "=", "2">>, <<"g", "c", "l", "i", "d">>}

\* Fragments: none, a plain one, one that reads like a tracking parameter
UrlFragments == {<<>>, <<"#", "f">>, <<"#", "u", "t", "m", "_", "t", "e", "r", "m", "=", "1">>}

\* Lists of at most MaxParams parameters
UrlParamLists == UNION {[1..n -> UrlParamPool] : n \in 0..MaxParams}

\* The URL string written from its parts
UrlOf(scheme, hostPath, params, fragment) ==
  scheme \o hostPath
    \o (IF params = <<>> THEN <<>> ELSE <<"?">> \o Join(params, <<"&">>))
    \o fragment

\* A URL string is chosen
UtmInit ==
  /\ ClickInit
  /\ ActIdle
  /\ PageIdle
  /\ \E scheme \in UrlSchemes, hostPath \in UrlHostPaths,
        params \in UrlParamLists, fragment \in UrlFragments :
       fnArg = [urlString |-> UrlOf(scheme, hostPath, params, fragment)]
  /\ fnRet = NotApplied

\* const url = removeUTMParams(tab.url || '')
RemoveUTMParams ==
  /\ fnRet = NotApplied
  /\ fnRet' = [applied |-> TRUE, calls |-> 1, prev |-> fnArg.urlString,
               value |-> removeUTMParams(fnArg.urlString)]
  /\ UNCHANGED <<pageVars, fnArg, clickVars, badgeVars, actVars>>

\* removeUTMParams called on its own result
RemoveUTMParamsAgain ==
  /\ fnRet # NotApplied
  /\ fnRet.calls = 1
  /\ fnRet' = [applied |-> TRUE, calls |-> 2, prev |-> fnRet.value,
               value |-> removeUTMParams(fnRet.value)]
  /\ UNCHANGED <<pageVars, fnArg, clickVars, badgeVars, actVars>>

UtmNext ==
  \/ RemoveUTMParams
  \/ RemoveUTMParamsAgain

UtmSpec == UtmInit /\ [][UtmNext]_vars

\* The eight parameter names of the claim
C11_TrackingNames ==
  {<<"u", "t", "m", "_", "s", "o", "u", "r", "c", "e">>,
   <<"u", "t", "m", "_", "m", "e", "d", "i", "u", "m">>,
   <<"u", "t", "m", "_", "c", "a", "m", "p", "a", "i", "g", "n">>,
   <<"u", "t", "m", "_", "t", "e", "r", "m">>,
   <<"u", "t", "m", "_", "c", "o", "n", "t", "e", "n", "t">>,
   <<"g", "c", "l", "i", "d">>,
   <<"f", "b", "c", "l", "i", "d">>,
   <<"m", "s", "c", "l", "k", "i", "d">>}

\* The parameters of a URL string as they are written in it: the pieces
\* between "&" of what stands after the first "?" and before the first "#"
C11_WrittenParams(urlString) ==
  SplitOn(Cut(Cut(urlString, "#").before, "?").after, "&")

\* The written parameter is one of the eight: its name, alone or before "="
C11_IsTracking(piece) ==
  \E name \in C11_TrackingNames :
    piece = name \/ StartsWith(piece, name \o <<"=">>)

\* No parameter written in the URL string is one of the eight
C11_Clean(urlString) ==
  \A k \in 1..Len(C11_WrittenParams(urlString)) :
    ~C11_IsTracking(C11_WrittenParams(urlString)[k])

\* C11: for a URL that parses, the result of removeUTMParams has none of
\* the eight tracking parameters in its query; for a string that does not
\* parse or a URL that has none of them the result is the input, character
\* for character; and a second call on the result returns it unchanged.
C11_RemoveUTMParams ==
  fnRet.applied =>
    /\ (fnRet.calls = 1 /\ ParseURL(fnArg.urlString).ok) => C11_Clean(fnRet.value)
    /\ (fnRet.calls = 1
          /\ (~ParseURL(fnArg.urlString).ok \/ C11_Clean(fnArg.urlString))) =>
         fnRet.value = fnArg.urlString
    /\ fnRet.calls = 2 => fnRet.value = fnRet.prev

\* C11 witness: a URL with a tracking parameter and another parameter was
\* cleaned, the other one was kept, and the second call changed nothing
C11_Witness ==
  /\ fnRet.applied
  /\ fnRet.calls = 2
  /\ ~C11_Clean(fnArg.urlString)
  /\ fnRet.prev # fnArg.urlString
  /\ Len(C11_WrittenParams(fnRet.prev)) = 1
  /\ C11_WrittenParams(fnRet.prev)[1] # <<>>
  /\ fnRet.value = fnRet.prev
  /\ C11_Clean(fnRet.value)

(***************************************************************************)
(* The options page (options.js): the form, saveFormats, loadSavedFormats, *)
(* resetToDefaults. A handler runs to its next await in one step; storage  *)
(* calls of different handlers may resolve in any order. The page is       *)
(* reopened only when no handler is waiting. Import and export are left    *)
(* out.                                                                    *)
(***************************************************************************)

\* updateTextareaVisibilityAndFormat(type): the hidden format textarea takes
\* the predefined value, or the custom text when 'custom' is selected
UpdateTextareaVisibilityAndFormat(f, c) ==
  [f EXCEPT !.formats[c] = IF f.types[c] = "custom"
                             THEN f.customs[c]
                             ELSE PREDEFINED_FORMATS[f.types[c]].value]

\* Mutant of FormatToSave: the custom text is stored as typed
FormatToSave_Untrimmed(f, c) ==
  IF f.types[c] = "custom"
    THEN f.customs[c]
    ELSE PREDEFINED_FORMATS[f.types[c]].value

\* saveFormats: syncDataToSave[${type}ClickFormat]
FormatToSave(f, c) ==
  IF f.types[c] = "custom"
    THEN Trim(f.customs[c])
    ELSE PREDEFINED_FORMATS[f.types[c]].value

\* saveFormats: syncDataToSave and localDataToSave, computed from the form
SyncDataToSave(f) ==
  [set |-> TRUE, types |-> f.types,
   formats |-> [c \in ClickTypes |-> FormatToSave(f, c)],
   autoSaveScreenshot |-> f.autoSave, from |-> f]
LocalDataToSave(f) ==
  [set |-> TRUE, screenshotSavePath |-> Trim(f.path), from |-> f]

\* saveFormats: the hidden format textareas take the values to save
FormAfterSave(f) ==
  [f EXCEPT !.formats = [c \in ClickTypes |-> FormatToSave(f, c)]]

\* saveFormats called on form f by op, waiting for chrome.storage.sync.set
SaveHandler(op, f) ==
  [op |-> op, pc |-> "syncSet", syncData |-> SyncDataToSave(f),
   localData |-> LocalDataToSave(f), syncResult |-> NotStoredSync,
   raced |-> FALSE]

\* loadSavedFormats waiting for chrome.storage.sync.get
LoadHandler ==
  [op |-> "load", pc |-> "syncGet", syncData |-> NotStoredSync,
   localData |-> NotStoredLocal, syncResult |-> NotStoredSync, raced |-> FALSE]

\* loadSavedFormats: the form filled from syncResult and localResult
LoadedForm(syncResult, localResult) ==
  [types    |-> syncResult.types,
   customs  |-> [c \in ClickTypes |->
                   IF syncResult.types[c] = "custom"
                     THEN syncResult.formats[c] ELSE <<>>],
   formats  |-> [c \in ClickTypes |->
                   IF syncResult.types[c] = "custom"
                     THEN syncResult.formats[c]
                     ELSE PREDEFINED_FORMATS[syncResult.types[c]].value],
   autoSave |-> syncResult.autoSaveScreenshot,
   path     |-> localResult.screenshotSavePath]

\* handlers without the k-th
WithoutHandler(k) ==
  SubSeq(handlers, 1, k - 1) \o SubSeq(handlers, k + 1, Len(handlers))

\* A handler starts while others may be waiting: they race
StartHandler(h) ==
  handlers' = Append([k \in DOMAIN handlers |-> [handlers[k] EXCEPT !.raced = TRUE]],
                     [h EXCEPT !.raced = (handlers # <<>>)])

\* The k-th handler ends
EndHandler(k, ok, loaded, fromSync, fromLocal) ==
  /\ handlers' = WithoutHandler(k)
  /\ optHist' = [lastDone |-> handlers[k].op, ok |-> ok,
                 raced |-> handlers[k].raced, loaded |-> loaded,
                 fromSync |-> fromSync, fromLocal |-> fromLocal]

\* The user changed the form: it no longer shows what was loaded
FormEdited ==
  /\ optEvents < MaxOptEvents
  /\ optEvents' = optEvents + 1
  /\ optHist' = [optHist EXCEPT !.loaded = FALSE]
  /\ UNCHANGED <<syncItems, localItems, handlers>>

\* The user picks a format type in a select: the change listener
SelectType ==
  /\ \E c \in EditedClickTypes, key \in ChosenFormatTypes :
       /\ key # form.types[c]
       /\ form' = UpdateTextareaVisibilityAndFormat([form EXCEPT !.types[c] = key], c)
  /\ FormEdited
  /\ UNCHANGED <<clickVars, badgeVars, fnVars, actVars, annVars>>

\* The user types in a custom textarea, shown when 'custom' is selected: the
\* input listener
InputCustom ==
  /\ \E c \in EditedClickTypes, text \in TypedFormats :
       /\ form.types[c] = "custom"
       /\ text # form.customs[c]
       /\ form' = [form EXCEPT !.customs[c] = text, !.formats[c] = text]
  /\ FormEdited
  /\ UNCHANGED <<clickVars, badgeVars, fnVars, actVars, annVars>>

\* The user ticks or unticks the auto-save checkbox
ToggleAutoSave ==
  /\ form' = [form EXCEPT !.autoSave = ~@]
  /\ FormEdited
  /\ UNCHANGED <<clickVars, badgeVars, fnVars, actVars, annVars>>

\* The user types the save path, shown when the checkbox is ticked
InputPath ==
  /\ form.autoSave
  /\ \E text \in TypedPaths :
       /\ text # form.path
       /\ form' = [form EXCEPT !.path = text]
  /\ FormEdited
  /\ UNCHANGED <<clickVars, badgeVars, fnVars, actVars, annVars>>

\* The form is submitted: the submit listener, then saveFormats up to
\* await chrome.storage.sync.set
Submit ==
  /\ optEvents < MaxOptEvents
  /\ optEvents' = optEvents + 1
  /\ form' = FormAfterSave(form)
  /\ StartHandler(SaveHandler("save", form))
  /\ optHist' = NoOptHist
  /\ UNCHANGED <<syncItems, localItems>>
  /\ UNCHANGED <<clickVars, badgeVars, fnVars, actVars, annVars>>

\* Mutant of ResetToDefaults: saveFormats reads the form before it is reset
ResetToDefaults_SavesFirst ==
  /\ optEvents < MaxOptEvents
  /\ optEvents' = optEvents + 1
  /\ form' = FormAfterSave(DefaultForm)
  /\ StartHandler(SaveHandler("reset", form))
  /\ optHist' = NoOptHist
  /\ UNCHANGED <<syncItems, localItems>>
  /\ UNCHANGED <<clickVars, badgeVars, fnVars, actVars, annVars>>

\* The reset button: resetToDefaults(true) up to the await in saveFormats
ResetToDefaults ==
  /\ optEvents < MaxOptEvents
  /\ optEvents' = optEvents + 1
  /\ form' = FormAfterSave(DefaultForm)
  /\ StartHandler(SaveHandler("reset", DefaultForm))
  /\ optHist' = NoOptHist
  /\ UNCHANGED <<syncItems, localItems>>
  /\ UNCHANGED <<clickVars, badgeVars, fnVars, actVars, annVars>>

\* saveFormats: chrome.storage.sync.set resolves, local.set is awaited
OptSyncSetResolves ==
  /\ \E k \in DOMAIN handlers :
       /\ handlers[k].pc = "syncSet"
       /\ syncItems' = handlers[k].syncData
       /\ handlers' = [handlers EXCEPT ![k].pc = "localSet"]
  /\ UNCHANGED <<form, localItems, optEvents, optHist>>
  /\ UNCHANGED <<clickVars, badgeVars, fnVars, actVars, annVars>>

\* saveFormats: chrome.storage.sync.set rejects, the catch shows the error
OptSyncSetRejects ==
  /\ \E k \in DOMAIN handlers :
       /\ handlers[k].pc = "syncSet"
       /\ EndHandler(k, FALSE, FALSE, NoForm, NoForm)
  /\ UNCHANGED <<form, syncItems, localItems, optEvents>>
  /\ UNCHANGED <<clickVars, badgeVars, fnVars, actVars, annVars>>

\* saveFormats: chrome.storage.local.set resolves, saveFormats returns
OptLocalSetResolves ==
  /\ \E k \in DOMAIN handlers :
       /\ handlers[k].pc = "localSet"
       /\ localItems' = handlers[k].localData
       /\ EndHandler(k, TRUE, FALSE, NoForm, NoForm)
  /\ UNCHANGED <<form, syncItems, optEvents>>
  /\ UNCHANGED <<clickVars, badgeVars, fnVars, actVars, annVars>>

\* saveFormats: chrome.storage.local.set rejects
OptLocalSetRejects ==
  /\ \E k \in DOMAIN handlers :
       /\ handlers[k].pc = "localSet"
       /\ EndHandler(k, FALSE, FALSE, NoForm, NoForm)
  /\ UNCHANGED <<form, syncItems, localItems, optEvents>>
  /\ UNCHANGED <<clickVars, badgeVars, fnVars, actVars, annVars>>

\* loadSavedFormats: chrome.storage.sync.get resolves, local.get is awaited
OptSyncGetResolves ==
  /\ \E k \in DOMAIN handlers :
       /\ handlers[k].pc = "syncGet"
       /\ handlers' = [handlers EXCEPT ![k].pc = "localGet",
                                       ![k].syncResult = syncItems]
  /\ UNCHANGED <<form, syncItems, localItems, optEvents, optHist>>
  /\ UNCHANGED <<clickVars, badgeVars, fnVars, actVars, annVars>>

\* loadSavedFormats: chrome.storage.local.get resolves and the form is filled
OptLocalGetResolves ==
  /\ \E k \in DOMAIN handlers :
       /\ handlers[k].pc = "localGet"
       /\ form' = LoadedForm(handlers[k].syncResult, localItems)
       /\ EndHandler(k, TRUE, TRUE, handlers[k].syncResult.from, localItems.from)
  /\ UNCHANGED <<syncItems, localItems, optEvents>>
  /\ UNCHANGED <<clickVars, badgeVars, fnVars, actVars, annVars>>

\* loadSavedFormats: a storage get rejects; the catch calls
\* resetToDefaults(false)
OptGetRejects ==
  /\ \E k \in DOMAIN handlers :
       /\ handlers[k].pc \in {"syncGet", "localGet"}
       /\ form' = FormAfterSave(DefaultForm)
       /\ EndHandler(k, FALSE, FALSE, NoForm, NoForm)
  /\ UNCHANGED <<syncItems, localItems, optEvents>>
  /\ UNCHANGED <<clickVars, badgeVars, fnVars, actVars, annVars>>

\* The options page is opened again: DOMContentLoaded up to the first await
\* of loadSavedFormats
Reopen ==
  /\ handlers = <<>>
  /\ optEvents < MaxOptEvents
  /\ optEvents' = optEvents + 1
  /\ form' = BlankForm
  /\ handlers' = <<LoadHandler>>
  /\ optHist' = NoOptHist
  /\ UNCHANGED <<syncItems, localItems>>
  /\ UNCHANGED <<clickVars, badgeVars, fnVars, actVars, annVars>>

\* The options page has just been opened, for the first time or after a
\* session that saved EarlierForm
OptInit ==
  /\ ClickInit
  /\ FnIdle
  /\ ActIdle
  /\ AnnIdle
  /\ form = BlankForm
  /\ \/ syncItems = NotStoredSync /\ localItems = NotStoredLocal
     \/ syncItems = SyncDataToSave(EarlierForm)
          /\ localItems = LocalDataToSave(EarlierForm)
  /\ handlers = <<LoadHandler>>
  /\ optEvents = 0
  /\ optHist = NoOptHist

OptNext ==
  \/ SelectType
  \/ InputCustom
  \/ ToggleAutoSave
  \/ InputPath
  \/ Submit
  \/ ResetToDefaults
  \/ OptSyncSetResolves
  \/ OptSyncSetRejects
  \/ OptLocalSetResolves
  \/ OptLocalSetRejects
  \/ OptSyncGetResolves
  \/ OptLocalGetResolves
  \/ OptGetRejects
  \/ Reopen

OptSpec == OptInit /\ [][OptNext]_vars

\* C12: when loadSavedFormats has filled the form from what saveFormats
\* stored for a form F, every click type shows the format type selected in
\* F, the format of each is the predefined value of that type or, for
\* 'custom', the trimmed custom text of F, and the checkbox is as in F; the
\* save path is the trimmed path of the form it was saved from.
C12_SaveLoadRoundTrip ==
  optHist.loaded =>
    /\ optHist.fromSync # NoForm =>
         /\ \A c \in ClickTypes :
              /\ form.types[c] = optHist.fromSync.types[c]
              /\ form.formats[c] =
                   IF optHist.fromSync.types[c] = "custom"
                     THEN Trim(optHist.fromSync.customs[c])
                     ELSE PREDEFINED_FORMATS[optHist.fromSync.types[c]].value
              /\ optHist.fromSync.types[c] = "custom" =>
                   form.customs[c] = Trim(optHist.fromSync.customs[c])
         /\ form.autoSave = optHist.fromSync.autoSave
         /\ syncItems.from = optHist.fromSync => form.autoSave = syncItems.autoSaveScreenshot
    /\ optHist.fromLocal # NoForm =>
         /\ form.path = Trim(optHist.fromLocal.path)
         /\ form.path = localItems.screenshotSavePath

\* C12 witness: a form with a custom text typed with spaces around it and
\* a path was saved in this session, the page was opened again and shows it
C12_Witness ==
  /\ optHist.loaded
  /\ optHist.fromSync # NoForm
  /\ optHist.fromSync # EarlierForm
  /\ optHist.fromSync.customs["single"] = <<" ", "a", " ">>
  /\ form.formats["single"] = <<"a">>
  /\ optHist.fromLocal = optHist.fromSync
  /\ form.path # <<>>

FormatPieces ==
  {PH_TITLE, <<"h", "t", "t", "p", "s">>, <<":", "/", "/">>, <<" ">>, <<"x">>}

\* The format templates: at most MaxPieces pieces written one after another
FormatTemplates ==
  {Join(ps, <<>>) : ps \in UNION {[1..n -> FormatPieces] : n \in 0..MaxPieces}}

\* A format template is stored for the click type
FmtInit ==
  /\ ClickInit
  /\ ActIdle
  /\ PageIdle
  /\ \E format \in FormatTemplates : fnArg = [format |-> format]
  /\ fnRet = NotApplied

\* const isUrlAction = isUrlFormat(formatTemplate)
IsUrlFormat ==
  /\ fnRet = NotApplied
  /\ fnRet' = [applied |-> TRUE, value |-> isUrlFormat(fnArg.format)]
  /\ UNCHANGED <<pageVars, fnArg, clickVars, badgeVars, actVars>>

FmtNext == IsUrlFormat

FmtSpec == FmtInit /\ [][FmtNext]_vars

\* The letters a scheme is written with
C16_Letters ==
  {"a", "b", "c", "d", "e", "f", "g", "h", "i", "j", "k", "l", "m", "n", "o",
   "p", "q", "r", "s", "t", "u", "v", "w", "x", "y", "z"}

\* format begins with a scheme followed by "://"
C16_BeginsWithScheme(format) ==
  \E n \in 1..Len(format) :
    /\ n + 3 <= Len(format)
    /\ \A i \in 1..n : format[i] \in C16_Letters
    /\ SubSeq(format, n + 1, n + 3) = <<":", "/", "/">>

\* C16: a click is treated as an open-URL action if and only if its format
\* template begins with a scheme followed by "://"; a template that only
\* contains "://" later in its text is treated as a copy action.
C16_OpenIffSchemeFirst ==
  fnRet # NotApplied =>
    (fnRet.value <=> C16_BeginsWithScheme(fnArg.format))

\* ------------------------------------------------------------------
\* Click trains and the pending click timer (C14, C15)
\* ------------------------------------------------------------------

\* C14: a click train of more than three clicks is ignored. Once more than
\* three clicks have been handled, each less than MULTI_CLICK_DELAY after the
\* one before, no click action has been dispatched since the first of them,
\* whatever the interleaving of the clicks with the expiry of the timers.
C14_LongTrainIgnored ==
  train.len > 3 => train.fired = 0

\* C15: at most one click timer is pending, and while one is pending
\* clickCount is 1, 2 or 3 and is the number of the click type whose action
\* the timer dispatches, the clicks of the no-valid-tab branch included.
C15_TimerMatchesCount ==
  /\ Cardinality(timers) <= 1
  /\ \A t \in timers :
       /\ clickCount \in 1..3
       /\ t.clickType = ClickTypeOf(clickCount)

\* ------------------------------------------------------------------
\* The Annotator class of the screenshot page (C17)
\* ------------------------------------------------------------------

\* The tools that draw a shape, and all the tools of the toolbar
DrawTools == {"rect", "circle", "line", "arrow"}
Tools == {"select", "text"} \cup DrawTools

\* selectedObject: null, or a Text taken out of annotations while it is
\* edited; any other value is an index of annotations
NullObject == 0
DetachedText == 0 - 1

\* currentShape: null
NoShape == [kind |-> "none", sized |-> FALSE]

\* new Annotator(canvas)
NewAnnotator ==
  [open |-> TRUE, isDrawing |-> FALSE, isDragging |-> FALSE,
   isResizing |-> FALSE, currentTool |-> "select",
   selectedObject |-> NullObject, currentShape |-> NoShape,
   activeHandle |-> FALSE, annotations |-> <<>>, textarea |-> FALSE]

\* annotation.isHit(x, y) is true for some position: always false for Line
\* and Arrow, false for an Ellipse with a zero radius
CanBeHit(annotation) ==
  CASE annotation.kind \in {"rect", "text"} -> TRUE
    [] annotation.kind = "circle" -> annotation.sized
    [] OTHER -> FALSE

\* What getObjectAt can return: null (0) or the index of an annotation
ObjectsAt(a) ==
  {0} \cup {i \in 1..Len(a.annotations) : CanBeHit(a.annotations[i])}

\* What selectedObject.getHandleAt can return (a handle or null): only
\* Rectangle overrides getHandleAt
HandlesAt(a) ==
  IF /\ a.selectedObject \in 1..Len(a.annotations)
     /\ a.annotations[a.selectedObject].kind = "rect"
  THEN BOOLEAN
  ELSE {FALSE}

\* finalize of createTextArea: the text is pushed if it is not blank
Finalize(a, typed) ==
  [a EXCEPT !.annotations =
              IF typed THEN Append(@, [kind |-> "text", sized |-> TRUE]) ELSE @,
            !.textarea = FALSE,
            !.selectedObject = NullObject]

\* createTextArea(x, y): focusing the new textarea blurs an open one
CreateTextArea(a, typed) ==
  [(IF a.textarea THEN Finalize(a, typed) ELSE a) EXCEPT !.textarea = TRUE]

\* onMouseDown with the select tool, after activeHandle was looked up
SelectAt(a, clickedObject) ==
  IF a.activeHandle
  THEN [a EXCEPT !.isResizing = TRUE]
  ELSE IF clickedObject # 0
  THEN [a EXCEPT !.selectedObject = clickedObject, !.isDragging = TRUE]
  ELSE [a EXCEPT !.selectedObject = NullObject]

\* onMouseDown(e)
OnMouseDown(a, handle, clickedObject, typed) ==
  IF a.currentTool = "select"
  THEN SelectAt([a EXCEPT !.activeHandle =
                   IF a.selectedObject # NullObject THEN handle ELSE @],
                clickedObject)
  ELSE IF a.currentTool = "text"
  THEN CreateTextArea(a, typed)
  ELSE [a EXCEPT !.isDrawing = TRUE,
                 !.selectedObject = NullObject,
                 !.currentShape = [kind |-> a.currentTool, sized |-> FALSE]]

\* onMouseMove(e): resizeByHandle and move change the geometry of the
\* selected object only; resize gives the shape being drawn its size
OnMouseMove(a) ==
  IF a.isResizing /\ a.selectedObject # NullObject /\ a.activeHandle
  THEN a
  ELSE IF a.isDragging /\ a.selectedObject # NullObject
  THEN a
  ELSE IF a.isDrawing /\ a.currentShape # NoShape
  THEN [a EXCEPT !.currentShape.sized = TRUE]
  ELSE a

\* onMouseUp(e)
OnMouseUp(a) ==
  [a EXCEPT !.annotations =
              IF a.isDrawing /\ a.currentShape # NoShape
              THEN Append(@, a.currentShape) ELSE @,
            !.currentShape = IF a.isDrawing THEN NoShape ELSE @,
            !.isDrawing = FALSE,
            !.isDragging = FALSE,
            !.isResizing = FALSE,
            !.activeHandle = FALSE]

\* annotations without the one at index i
WithoutAnnotation(annotations, i) ==
  SubSeq(annotations, 1, i - 1) \o SubSeq(annotations, i + 1, Len(annotations))

\* onDoubleClick(e)
OnDoubleClick(a, clickedObject, typed) ==
  IF clickedObject # 0 /\ a.annotations[clickedObject].kind = "text"
  THEN [(IF a.textarea
         THEN Finalize([a EXCEPT !.annotations =
                                   WithoutAnnotation(@, clickedObject)], typed)
         ELSE [a EXCEPT !.annotations = WithoutAnnotation(@, clickedObject)])
        EXCEPT !.selectedObject = IF a.textarea THEN NullObject ELSE DetachedText,
               !.textarea = TRUE]
  ELSE a

\* setTool(tool)
SetToolTo(a, tool) ==
  [a EXCEPT !.currentTool = tool,
            !.selectedObject = IF tool # "select" THEN NullObject ELSE @]

\* undo()
UndoLast(a) ==
  IF Len(a.annotations) > 0
  THEN [a EXCEPT !.annotations = SubSeq(@, 1, Len(@) - 1),
                 !.selectedObject = NullObject]
  ELSE a

\* One more user event on the annotator page
AnnEvent ==
  /\ ann.open
  /\ annEvents < MaxAnnEvents
  /\ annEvents' = annEvents + 1
  /\ UNCHANGED <<clickVars, badgeVars, fnVars, actVars, optVars>>

\* The mouse button goes down on the canvas: the mousedown listener
MouseDown ==
  /\ button = "up"
  /\ \E handle \in HandlesAt(ann), clickedObject \in ObjectsAt(ann),
        typed \in BOOLEAN :
       ann' = OnMouseDown(ann, handle, clickedObject, typed)
  /\ button' = "canvas"
  /\ AnnEvent

\* The mouse button goes down outside the canvas: no listener
MouseDownOutside ==
  /\ button = "up"
  /\ button' = "outside"
  /\ UNCHANGED ann
  /\ AnnEvent

\* The pointer moves over the canvas: the mousemove listener
MouseMove ==
  /\ ann' = OnMouseMove(ann)
  /\ UNCHANGED button
  /\ AnnEvent

\* The mouse button is released over the canvas: the mouseup listener
MouseUp ==
  /\ button # "up"
  /\ ann' = OnMouseUp(ann)
  /\ button' = "up"
  /\ AnnEvent

\* The mouse button is released outside the canvas: no mouseup is delivered
\* to the canvas
MouseUpOutside ==
  /\ button # "up"
  /\ button' = "up"
  /\ UNCHANGED ann
  /\ AnnEvent

\* A double click on the canvas: the dblclick listener
DoubleClick ==
  /\ button = "up"
  /\ \E clickedObject \in ObjectsAt(ann), typed \in BOOLEAN :
       ann' = OnDoubleClick(ann, clickedObject, typed)
  /\ UNCHANGED button
  /\ AnnEvent

\* The open textarea loses focus or Enter is pressed in it: finalize
TextAreaDone ==
  /\ ann.open
  /\ ann.textarea
  /\ \E typed \in BOOLEAN : ann' = Finalize(ann, typed)
  /\ UNCHANGED button
  /\ AnnEvent

\* A click on a tool button of the toolbar
SetTool ==
  /\ button = "up"
  /\ \E tool \in Tools : ann' = SetToolTo(ann, tool)
  /\ UNCHANGED button
  /\ AnnEvent

\* A click on the undo button
Undo ==
  /\ button = "up"
  /\ ann' = UndoLast(ann)
  /\ UNCHANGED button
  /\ AnnEvent

\* A click on the download button
Download ==
  /\ button = "up"
  /\ ann' = [ann EXCEPT !.selectedObject = NullObject]
  /\ UNCHANGED button
  /\ AnnEvent

\* A click on the copy button
CopyImage ==
  /\ button = "up"
  /\ ann' = [ann EXCEPT !.selectedObject = NullObject]
  /\ UNCHANGED button
  /\ AnnEvent

\* The annotator page has loaded
AnnInit ==
  /\ ClickInit
  /\ FnIdle
  /\ ActIdle
  /\ OptIdle
  /\ ann = NewAnnotator
  /\ annEvents = 0
  /\ button = "up"

AnnNext ==
  \/ MouseDown
  \/ MouseDownOutside
  \/ MouseMove
  \/ MouseUp
  \/ MouseUpOutside
  \/ DoubleClick
  \/ TextAreaDone
  \/ SetTool
  \/ Undo
  \/ Download
  \/ CopyImage

AnnSpec == AnnInit /\ [][AnnNext]_vars

\* C17: the interaction modes of the Annotator are mutually exclusive: at
\* most one of isDrawing, isDragging and isResizing is true, for any
\* sequence of tool changes and mouse events on the canvas, a press whose
\* release happens outside the canvas included.
C17_ModesExclusive ==
  ann.open =>
    /\ ~(ann.isDrawing /\ ann.isDragging)
    /\ ~(ann.isDrawing /\ ann.isResizing)
    /\ ~(ann.isDragging /\ ann.isResizing)
====
